---- MODULE Spec2Model ----
(***************************************************************************)
(* StudyBuddy: the HTTP handlers of backend/app/main.py, the services they *)
(* call (document_services.py, embedding_services.py, models.py,           *)
(* config.py) and the agentic orchestrator of services/agent_service.py.   *)
(*                                                                         *)
(* Strings the code takes apart (file names, identifiers) are sequences of *)
(* one-character strings; texts the code only passes around are strings.   *)
(* The module app.services.rag_services (class RAGService) is imported by  *)
(* main.py but is not part of the sources; it is modelled from the         *)
(* specification, sections 4.4 and 4.5, and so are the four helper methods *)
(* that agent_service.py calls but does not define.                        *)
(***************************************************************************)
EXTENDS Integers, Sequences, FiniteSets, TLC

VARIABLES
    store,      \* the ChromaDB collection: a sequence of stored chunk records
    op,         \* the handler that served the last request
    req,        \* the last request
    status,     \* HTTP status of the last response
    calls,      \* the service calls the last request made, in order
    body,       \* the body of the last response
    asked,      \* the POST /query requests handled since the process started
    pc,         \* agent: position in process_query/_execute_tools
    content,    \* agent: response.content, the blocks of the plan response
    idx,        \* agent: index of the next block of the for loop
    final_answer,   \* agent: local final_answer
    sources,        \* agent: local sources
    tool_results,   \* agent: local tool_results
    trace,          \* agent: language-model and tool calls made, in order
    raised          \* agent: the exception that left process_query, or "none"

apiVars == <<store, op, req, status, calls, body, asked>>
agentVars == <<pc, content, idx, final_answer, sources, tool_results, trace, raised>>
vars == <<store, op, req, status, calls, body, asked,
          pc, content, idx, final_answer, sources, tool_results, trace, raised>>

----------------------------------------------------------------------------
(* Bounds of the model. *)

\* most chunks the collection holds when the process starts
MaxStored == 3
\* most content blocks in one plan response of the language model
MaxBlocks == 3
\* size in bytes of an ordinary small upload
SmallSize == 12
\* most POST /query requests followed in one run
MaxAsked == 1

----------------------------------------------------------------------------
(* Generic helpers. *)

Min(a, b) == IF a <= b THEN a ELSE b

Range(s) == {s[i] : i \in 1..Len(s)}

RECURSIVE SumTo(_, _)
\* sum of f[1..n]
SumTo(f, n) == IF n = 0 THEN 0 ELSE f[n] + SumTo(f, n - 1)

\* str(int) for a natural number
RECURSIVE Digits(_)
Digits(n) ==
    LET d == <<"0", "1", "2", "3", "4", "5", "6", "7", "8", "9">>
    IN IF n < 10 THEN <<d[n + 1]>> ELSE Digits(n \div 10) \o <<d[(n % 10) + 1]>>

\* str.lower() on one character (the capitals the inputs use)
LowerChar(c) ==
    CASE c = "P" -> "p" [] c = "D" -> "d" [] c = "F" -> "f"
      [] c = "T" -> "t" [] c = "X" -> "x" [] c = "E" -> "e"
      [] OTHER -> c

Lower(s) == [i \in 1..Len(s) |-> LowerChar(s[i])]

\* the largest index of a "." in name, 0 when there is none (str.rfind + 1)
LastDot(name) ==
    LET dots == {i \in 1..Len(name) : name[i] = "."}
    IN IF dots = {} THEN 0 ELSE CHOOSE i \in dots : \A j \in dots : j <= i

\* pathlib.PurePath.suffix of a final path component:
\* i = name.rfind('.'); name[i:] if 0 < i < len(name) - 1 else ''
PathSuffix(name) ==
    LET i == LastDot(name)
    IN IF i > 1 /\ i < Len(name) THEN SubSeq(name, i, Len(name)) ELSE <<>>

\* pathlib.PurePath.stem: the final component without its suffix
PathStem(name) ==
    LET i == LastDot(name)
    IN IF i > 1 /\ i < Len(name) THEN SubSeq(name, 1, i - 1) ELSE name

\* s[1:]
DropFirst(s) == IF s = <<>> THEN <<>> ELSE Tail(s)

----------------------------------------------------------------------------
(* config.py and models.py. *)

Pdf == <<"p", "d", "f">>
Txt == <<"t", "x", "t">>
Docx == <<"d", "o", "c", "x">>

\* class FileType(str, Enum): the values FileType(value) accepts
FileType == {Pdf, Txt, Docx}

\* class Settings: the fields the model reads, with their defaults.  The
\* record's domain is the set of attributes a Settings object has.
Settings ==
    [ max_file_size_mb |-> 50,
      allowed_file_type |-> <<Pdf, Txt, Docx>>,
      chunk_size |-> 1000,
      chunk_overlap |-> 200,
      default_num_contexts |-> 4 ]

\* hasattr(obj, name): reading a missing attribute raises AttributeError
HasAttr(obj, name) == name \in DOMAIN obj

\* QueryRequest.num_contexts: Field(default=4, ge=1, le=10)
NumContextsMin == 1
NumContextsMax == 10

\* class DocumentChunk: the declared types of the fields create_chunks fills
\* with numbers
DocumentChunk ==
    [ chunk_index |-> "str", start_char |-> "str", end_char |-> "str" ]

\* pydantic (v2) validation of the numeric arguments of DocumentChunk(...):
\* a value is accepted only by a field of its own type (an int is not
\* coerced to str)
DocumentChunkValid(argTypes) ==
    \A f \in DOMAIN argTypes : argTypes[f] = DocumentChunk[f]

\* relevance_score of a unit-normalised pair, in twenty-fifths: the model's
\* vectors have integer coordinates and norm 5
ScoreOne == 5 * 5

\* class Source: relevance_score: float = Field(ge=0.0, le=1.0)
SourceValid(s) == s.relevance_score >= 0 /\ s.relevance_score <= ScoreOne

----------------------------------------------------------------------------
(* Results of calls: a value, or the exception that left the call. *)

Ok(v) == [exc |-> "none", val |-> v]
Raise(e) == [exc |-> e, val |-> <<>>]

----------------------------------------------------------------------------
(* models.py: class QueryRequest, the field question. A question is given by
   its run lengths: `lead` whitespace characters, then `core` characters of
   which the first and the last are not whitespace, then `trail` whitespace
   characters; a string of whitespace alone has core = 0. *)

\* len(v)
StrLen(v) == v.lead + v.core + v.trail

\* v.strip()
strip(v) == [lead |-> 0, core |-> v.core, trail |-> 0]

\* Field(min_length=1, max_length=100)
QuestionMinLength == 1
QuestionMaxLength == 100

\* pydantic's ValidationError with the message of the failed check, as words
ValidationError(msg) == [exc |-> "ValidationError", val |-> msg]

\* @field_validator('question') question_not_empty
question_not_empty(v) ==
    LET stripped == strip(v)
    IN IF StrLen(stripped) = 0
       THEN ValidationError(<<"Value", "error,", "Question", "cannot", "be",
                              "empty", "or", "whitespace">>)
       ELSE Ok(stripped)

\* validation of QueryRequest(question=v): the constraints of the str field
\* are checked on the value as given, the field validator runs after them
QueryRequest_question(v) ==
    IF StrLen(v) < QuestionMinLength
    THEN ValidationError(<<"String", "should", "have", "at", "least", "1",
                           "character">>)
    ELSE IF StrLen(v) > QuestionMaxLength
    THEN ValidationError(<<"String", "should", "have", "at", "most", "100",
                           "characters">>)
    ELSE question_not_empty(v)

\* num_contexts: int = Field(default=4, ge=1, le=10)
NumContextsDefault == 4

\* a num_contexts field that takes any integer
QueryRequest_num_contexts_Unbounded(v) ==
    Ok(IF v.given THEN v.value ELSE NumContextsDefault)

\* validation of the field num_contexts of a request body; v.given tells
\* whether the body has the field
QueryRequest_num_contexts(v) ==
    IF ~v.given THEN Ok(NumContextsDefault)
    ELSE IF v.value < NumContextsMin
    THEN ValidationError(<<"Input", "should", "be", "greater", "than", "or",
                           "equal", "to", "1">>)
    ELSE IF v.value > NumContextsMax
    THEN ValidationError(<<"Input", "should", "be", "less", "than", "or",
                           "equal", "to", "10">>)
    ELSE Ok(v.value)

----------------------------------------------------------------------------
(* services/embedding_services.py *)

\* SentenceTransformer.encode(text, normalize_embeddings=True): a fixed
\* function of the text alone; every vector has norm 5 (one, in fifths)
encode(text) ==
    CASE text \in {"alpha", "what is alpha?"} -> <<5, 0>>
      [] text \in {"beta"} -> <<0, 5>>
      [] text \in {"gamma", "alpha or beta?"} -> <<3, 4>>
      [] OTHER -> <<4, 3>>

\* EmbeddingService.embed_text
embed_text(text) == encode(text)

\* a batch whose vectors come back in the opposite order
embed_texts_Reversed(texts) ==
    [i \in 1..Len(texts) |-> encode(texts[Len(texts) + 1 - i])]

\* EmbeddingService.embed_texts: [] for no texts, else one batched encode
embed_texts(texts) ==
    IF texts = <<>> THEN <<>> ELSE [i \in 1..Len(texts) |-> encode(texts[i])]

\* an assignment that gives every chunk the first embedding
embed_chunks_FirstForAll(chunks) ==
    IF chunks = <<>> THEN <<>>
    ELSE LET texts == [i \in 1..Len(chunks) |-> chunks[i].text]
             embeddings == embed_texts(texts)
         IN [i \in 1..Len(chunks) |->
                [chunks[i] EXCEPT !.embedding = embeddings[1]]]

\* EmbeddingService.embed_chunks: assigns embeddings[i] to chunks[i]
embed_chunks(chunks) ==
    IF chunks = <<>> THEN <<>>
    ELSE LET texts == [i \in 1..Len(chunks) |-> chunks[i].text]
             embeddings == embed_texts(texts)
         IN [i \in 1..Len(chunks) |->
                [chunks[i] EXCEPT !.embedding = embeddings[i]]]

\* dot product of two embeddings
Dot(u, v) == u[1] * v[1] + u[2] * v[2]

\* a similarity that embeds the first text twice
calculate_similarity_SameText(text1, text2) ==
    Dot(embed_text(text1), embed_text(text1))

\* EmbeddingService.calculate_similarity
calculate_similarity(text1, text2) ==
    LET emb1 == embed_text(text1)
        emb2 == embed_text(text2)
    IN Dot(emb1, emb2)

----------------------------------------------------------------------------
(* services/document_services.py *)

\* uuid.uuid4().hex[:8]: eight hexadecimal characters
FileIdLen == 8

\* DocumentService.save_file: the name of the saved file,
\* f"{file_id}_{filename}"
save_file(file_id, filename) == file_id \o <<"_">> \o filename

\* DocumentService._extract_pdf: the text found, ValueError when no method
\* returned text
extract_pdf(file) ==
    IF file.readable /\ file.text # <<>>
    THEN Ok(file.text) ELSE Raise("ValueError")

RECURSIVE JoinSplit(_, _)
\* ' '.join(text.split()) on a sequence of characters: `pending` tells that
\* a word was written and whitespace was met since
JoinSplit(text, pending) ==
    IF text = <<>> THEN <<>>
    ELSE IF Head(text) = " "
    THEN JoinSplit(Tail(text), pending)
    ELSE (IF pending THEN <<" ">> ELSE <<>>) \o <<Head(text)>>
            \o IF Len(text) > 1 /\ text[2] = " "
               THEN JoinSplit(Tail(text), TRUE)
               ELSE JoinSplit(Tail(text), FALSE)

\* DocumentService._clean_text on texts of lower-case letters, blanks and
\* the capital "K": a "K" before whitespace goes with the first substitution
\* and every other "K" with the replacement 'K' -> '', whitespace runs
\* become one blank and the blanks at both ends are dropped
clean_text(text) ==
    JoinSplit(SelectSeq(text, LAMBDA c : c # "K"), FALSE)

\* the entry of `results` that max(results, key=lambda x: len(x[1])) returns:
\* the first of the longest
MaxByLength(results) ==
    results[CHOOSE i \in 1..Len(results) :
               /\ \A j \in 1..Len(results) :
                     Len(results[j].text) <= Len(results[i].text)
               /\ \A j \in 1..(i - 1) :
                     Len(results[j].text) < Len(results[i].text)]

\* an extraction that keeps the method whose text is longest before cleaning
extract_pdf_methods_LongestRaw(plumber, pypdf) ==
    LET ok1 == plumber.exc = "none" /\ plumber.val # <<>>
        ok2 == pypdf.exc = "none" /\ pypdf.val # <<>>
    IN IF ok1 /\ (~ok2 \/ Len(plumber.val) >= Len(pypdf.val))
       THEN Ok(clean_text(plumber.val))
       ELSE IF ok2 THEN Ok(clean_text(pypdf.val))
       ELSE Raise("ValueError")

\* DocumentService._extract_pdf, given what each of the two methods does on
\* the file: raises, or returns the joined text of the pages
extract_pdf_methods(plumber, pypdf) ==
    LET r1 == IF plumber.exc = "none" /\ plumber.val # <<>>
              THEN <<[method |-> "pdfplumber",
                      text |-> clean_text(plumber.val)]>>
              ELSE <<>>
        r2 == IF pypdf.exc = "none" /\ pypdf.val # <<>>
              THEN <<[method |-> "pypdf", text |-> clean_text(pypdf.val)]>>
              ELSE <<>>
        results == r1 \o r2
    IN IF results # <<>> THEN Ok(MaxByLength(results).text)
       ELSE Raise("ValueError")

\* DocumentService._extract_txt / _extract_docx: the text of the file, or the
\* error of the reader
extract_plain(file) ==
    IF file.readable THEN Ok(file.text) ELSE Raise("ReadError")

\* DocumentService.extract_text
extract_text(file, file_type) ==
    IF file_type = Pdf THEN extract_pdf(file)
    ELSE IF file_type \in {Txt, Docx} THEN extract_plain(file)
    ELSE Raise("ValueError")

\* RecursiveCharacterTextSplitter.split_text on a text given as its
\* paragraphs: pieces are stripped and the empty ones dropped
split_text(text) == SelectSeq(text, LAMBDA p : p \notin {"", " "})

\* f"{document_id}_chunk_{idx}"
ChunkId(document_id, i) ==
    document_id \o <<"_", "c", "h", "u", "n", "k", "_">> \o Digits(i)

\* DocumentService.create_chunks
create_chunks(text, document_id, metadata) ==
    LET text_chunks == split_text(text)
        n == Len(text_chunks)
        lens == [i \in 1..n |-> Len(text_chunks[i])]
        \* enumerate() and current_pos are ints
        argTypes == [chunk_index |-> "int", start_char |-> "int",
                     end_char |-> "int"]
    IN IF n > 0 /\ ~DocumentChunkValid(argTypes) THEN Raise("ValidationError")
       ELSE Ok([i \in 1..n |->
                  [ chunk_id |-> ChunkId(document_id, i - 1),
                    document_id |-> document_id,
                    text |-> text_chunks[i],
                    chunk_index |-> i - 1,
                    start_char |-> SumTo(lens, i - 1),
                    end_char |-> SumTo(lens, i - 1) + lens[i],
                    embedding |-> <<>>,
                    metadata |-> metadata ]])

----------------------------------------------------------------------------
(* app.services.rag_services.RAGService, from the specification 4.4, 4.5. *)

NoInformation == "no relevant information found"

\* what the collection keeps of a chunk (4.4 upsert)
Stored(chunk) ==
    [ chunk_id |-> chunk.chunk_id,
      document_id |-> chunk.document_id,
      filename |-> chunk.metadata.filename,
      text |-> chunk.text,
      embedding |-> chunk.embedding ]

\* upsert of one record, keyed by chunk identifier
Upsert(st, r) ==
    IF \E i \in 1..Len(st) : st[i].chunk_id = r.chunk_id
    THEN [i \in 1..Len(st) |-> IF st[i].chunk_id = r.chunk_id THEN r ELSE st[i]]
    ELSE Append(st, r)

RECURSIVE UpsertAll(_, _)
UpsertAll(st, rs) ==
    IF rs = <<>> THEN st ELSE UpsertAll(Upsert(st, Head(rs)), Tail(rs))

\* RAGService.store_chunks
store_chunks(st, chunks, up) ==
    IF ~up THEN Raise("StoreUnavailableError")
    ELSE Ok(UpsertAll(st, [i \in 1..Len(chunks) |-> Stored(chunks[i])]))

\* x inserted into a sequence sorted by non-increasing score, after every
\* entry whose score is not smaller
InsertByScore(sorted, x) ==
    LET n == Cardinality({i \in 1..Len(sorted) :
                             sorted[i].relevance_score >= x.relevance_score})
    IN SubSeq(sorted, 1, n) \o <<x>> \o SubSeq(sorted, n + 1, Len(sorted))

RECURSIVE SortByScore(_)
\* stable sort by non-increasing score
SortByScore(s) ==
    IF s = <<>> THEN <<>>
    ELSE InsertByScore(SortByScore(SubSeq(s, 1, Len(s) - 1)), s[Len(s)])

\* 4.4 query: the top_k eligible chunks by descending similarity
store_query(st, query_vector, top_k, document_ids) ==
    LET eligible == SelectSeq(st, LAMBDA c :
                        ~document_ids.given
                        \/ c.document_id \in Range(document_ids.ids))
        scored == [i \in 1..Len(eligible) |->
                    [ document_name |-> eligible[i].filename,
                      chunk_id |-> eligible[i].chunk_id,
                      relevance_score |->
                          Dot(query_vector, eligible[i].embedding) ]]
        ranked == SortByScore(scored)
    IN SubSeq(ranked, 1, Min(top_k, Len(ranked)))

\* RAGService.query (4.5, steps 2 to 7)
rag_query(question, num_contexts, document_ids, st, up, llm) ==
    LET query_vector == embed_text(question)
        retrieved == store_query(st, query_vector, num_contexts, document_ids)
    IN IF ~up
       THEN [exc |-> "StoreUnavailableError", answer |-> "", sources |-> <<>>,
             calls |-> <<"embed_text", "store.query">>]
       ELSE IF retrieved = <<>>
       THEN [exc |-> "none", answer |-> NoInformation, sources |-> <<>>,
             calls |-> <<"embed_text", "store.query">>]
       ELSE IF ~llm
       THEN [exc |-> "GenerationError", answer |-> "", sources |-> <<>>,
             calls |-> <<"embed_text", "store.query", "llm">>]
       ELSE [exc |-> "none", answer |-> "generated answer",
             sources |-> SortByScore(retrieved),
             calls |-> <<"embed_text", "store.query", "llm">>]

----------------------------------------------------------------------------
(* main.py: upload_document *)

\* what a handler's try block ends with: the exception that left it ("none"
\* for a return), the status of an HTTPException, the service calls made, the
\* collection afterwards and the value returned
Frame(exc, code, cs, st, val) ==
    [exc |-> exc, code |-> code, calls |-> cs, store |-> st, val |-> val]

\* settings.max_file_size_mb * 1024 * 1024
max_size == Settings.max_file_size_mb * 1024 * 1024

\* upload_document, from "Save file" to the return of UploadResponse; cs are
\* the calls made so far
upload_pipeline(file, file_type, file_id, up, st, cs) ==
    LET file_path == save_file(file_id, file.filename)
        c1 == Append(cs, "save_file")
        text == extract_text(file, file_type)
        c2 == Append(c1, "extract_text")
        document_id == PathStem(file_path)
        metadata == [filename |-> file.filename, file_type |-> file_type,
                     file_size_bytes |-> file.size, total_chunks |-> 0]
        chunks == create_chunks(text.val, document_id, metadata)
        c3 == Append(c2, "create_chunks")
        chunks_with_embeddings == embed_chunks(chunks.val)
        c4 == Append(c3, "embed_chunks")
        stored == store_chunks(st, chunks_with_embeddings, up)
        c5 == Append(c4, "store_chunks")
    IN IF text.exc # "none" THEN Frame(text.exc, 0, c2, st, <<>>)
       ELSE IF chunks.exc # "none" THEN Frame(chunks.exc, 0, c3, st, <<>>)
       ELSE IF stored.exc # "none" THEN Frame(stored.exc, 0, c5, st, <<>>)
       ELSE Frame("none", 0, c5, stored.val,
                  [ success |-> TRUE,
                    filename |-> file.filename,
                    chunks_created |-> Len(chunks.val),
                    document_id |-> document_id,
                    total_chunks |-> Len(chunks.val) ])

\* upload_document without its validation block
upload_try_Unchecked(file, file_id, up, st) ==
    upload_pipeline(file, Lower(DropFirst(PathSuffix(file.filename))),
                    file_id, up, st, <<"read">>)

\* upload_document checking the file type only after the file was saved
upload_try_CheckAfterSave(file, file_id, up, st) ==
    LET file_extension == Lower(DropFirst(PathSuffix(file.filename)))
    IN IF file.size > max_size
       THEN Frame("HTTPException", 400, <<"read">>, st, <<>>)
       ELSE IF file_extension \notin Range(Settings.allowed_file_type)
       THEN Frame("HTTPException", 400, <<"read", "save_file">>, st, <<>>)
       ELSE upload_pipeline(file, file_extension, file_id, up, st, <<"read">>)

\* the try block of upload_document
upload_try(file, file_id, up, st) ==
    IF ~HasAttr(Settings, "allowed_file_types")
    THEN Frame("AttributeError", 0, <<>>, st, <<>>)
    ELSE LET file_extension == Lower(DropFirst(PathSuffix(file.filename)))
         IN IF file_extension \notin Range(Settings.allowed_file_types)
            THEN Frame("HTTPException", 400, <<>>, st, <<>>)
            ELSE IF file_extension \notin FileType
            THEN Frame("ValueError", 0, <<>>, st, <<>>)
            ELSE IF file.size > max_size
            THEN Frame("HTTPException", 400, <<"read">>, st, <<>>)
            ELSE upload_pipeline(file, file_extension, file_id, up, st,
                                 <<"read">>)

\* the except clauses of upload_document: an HTTPException is raised again,
\* any other exception becomes status 500
upload_status(r) ==
    IF r.exc = "none" THEN 200
    ELSE IF r.exc = "HTTPException" THEN r.code
    ELSE 500

\* POST /upload
upload_document(file, file_id, up) ==
    LET r == upload_try(file, file_id, up, store)
    IN /\ op = "none"
       /\ op' = "upload"
       /\ req' = [file |-> file, up |-> up]
       /\ status' = upload_status(r)
       /\ calls' = r.calls
       /\ body' = IF r.exc = "none" THEN r.val ELSE [detail |-> r.exc]
       /\ store' = r.store
       /\ UNCHANGED <<asked, agentVars>>

----------------------------------------------------------------------------
(* main.py: query *)

\* query dropping the document filter
query_call_args_NoFilter(request) ==
    [ question |-> request.question,
      num_contexts |-> request.num_contexts,
      document_ids |-> [given |-> FALSE, ids |-> <<>>] ]

\* query asking for the default number of contexts
query_call_args_DefaultContexts(request) ==
    [ question |-> request.question,
      num_contexts |-> Settings.default_num_contexts,
      document_ids |-> request.document_ids ]

\* the arguments query passes to rag_service.query
query_call_args(request) ==
    [ question |-> request.question,
      num_contexts |-> request.num_contexts,
      document_ids |-> request.document_ids ]

\* query treating an answer without sources as a failure
query_response_RejectEmpty(answer, srcs) ==
    IF srcs # <<>> /\ \A i \in 1..Len(srcs) : SourceValid(srcs[i])
    THEN Ok([answer |-> answer, sources |-> srcs])
    ELSE Raise("ValidationError")

\* QueryResponse(answer=answer, sources=sources, query_time_seconds=...):
\* the sources are validated as List[Source]
query_response(answer, srcs) ==
    IF \A i \in 1..Len(srcs) : SourceValid(srcs[i])
    THEN Ok([answer |-> answer, sources |-> srcs])
    ELSE Raise("ValidationError")

\* the try block of query
query_try(request, up, llm, st) ==
    LET args == query_call_args(request)
        r == rag_query(args.question, args.num_contexts, args.document_ids,
                       st, up, llm)
        cs == <<"rag_service.query">> \o r.calls
        resp == query_response(r.answer, r.sources)
    IN IF r.exc # "none" THEN Frame(r.exc, 0, cs, st, <<>>)
       ELSE Frame(resp.exc, 0, cs, st, resp.val)

\* except Exception: status 500
query_status(r) == IF r.exc = "none" THEN 200 ELSE 500

\* POST /query, for a request FastAPI has validated as a QueryRequest
query(request, up, llm) ==
    LET r == query_try(request, up, llm, store)
    IN /\ op = "none"
       /\ asked < MaxAsked
       /\ asked' = asked + 1
       /\ op' = "query"
       /\ req' = [request |-> request, up |-> up, llm |-> llm]
       /\ status' = query_status(r)
       /\ calls' = r.calls
       /\ body' = IF r.exc = "none" THEN r.val ELSE [detail |-> r.exc]
       /\ store' = r.store
       /\ UNCHANGED agentVars

----------------------------------------------------------------------------
(* main.py: preview_document *)

\* a preview that goes on to process the document as an upload does
preview_try_Processes(file, file_id, st) ==
    upload_try_Unchecked(file, file_id, TRUE, st)

\* the try block of preview_document
preview_try(file, file_id, st) ==
    IF ~HasAttr(Settings, "allowed_file_types")
    THEN Frame("AttributeError", 0, <<>>, st, <<>>)
    ELSE LET file_extension == Lower(DropFirst(PathSuffix(file.filename)))
             file_path == save_file(file_id, file.filename)
             extracted_text == extract_text(file, file_extension)
         IN IF file_extension \notin Range(Settings.allowed_file_types)
            THEN Frame("HTTPException", 400, <<>>, st, <<>>)
            ELSE IF file_extension \notin FileType
            THEN Frame("ValueError", 0, <<>>, st, <<>>)
            ELSE IF extracted_text.exc # "none"
            THEN Frame(extracted_text.exc, 0,
                       <<"read", "save_file", "extract_text">>, st, <<>>)
            ELSE Frame("none", 0, <<"read", "save_file", "extract_text">>, st,
                       [ filename |-> file.filename,
                         file_type |-> file_extension,
                         file_size_bytes |-> file.size,
                         full_text |-> extracted_text.val ])

\* except Exception: every exception of the try block, the HTTPException of
\* the type check included, becomes status 500
preview_status(r) == IF r.exc = "none" THEN 200 ELSE 500

\* POST /preview
preview_document(file, file_id) ==
    LET r == preview_try(file, file_id, store)
    IN /\ op = "none"
       /\ op' = "preview"
       /\ req' = [file |-> file]
       /\ status' = preview_status(r)
       /\ calls' = r.calls
       /\ body' = IF r.exc = "none" THEN r.val ELSE [detail |-> r.exc]
       /\ store' = r.store
       /\ UNCHANGED <<asked, agentVars>>

----------------------------------------------------------------------------
(* main.py: get_stats *)

\* RAGService(): the answerer object of one request. The constructor obtains
\* the store client and the collection (get_stats reads them as the attribute
\* collection) and starts its query counter at 0.
RAGService(reachable) ==
    IF reachable THEN Ok([total_queries |-> 0])
    ELSE Raise("StoreUnavailableError")

\* get_rag_service: a new RAGService for every request
get_rag_service(reachable) == RAGService(reachable)

StatsZero == [total_documents |-> 0, total_chunks |-> 0, total_queries |-> 0]

\* statistics that take every chunk for a document
stats_try_ChunksAsDocuments(rag_service, st, fail) ==
    IF fail \in {"count", "get"}
    THEN Frame("StoreUnavailableError", 0, <<"count">>, st, <<>>)
    ELSE Frame("none", 0, <<"count", "get">>, st,
               [ total_documents |-> Len(st),
                 total_chunks |-> Len(st),
                 total_queries |-> rag_service.total_queries ])

\* the try block of get_stats; fail names the store call that fails, if any
stats_try(rag_service, st, fail) ==
    IF fail = "count"
    THEN Frame("StoreUnavailableError", 0, <<"count">>, st, <<>>)
    ELSE LET total_chunks == Len(st)
             unique_docs == {st[i].document_id : i \in 1..Len(st)}
         IN IF total_chunks > 0 /\ fail = "get"
            THEN Frame("StoreUnavailableError", 0, <<"count", "get">>, st,
                       <<>>)
            ELSE Frame("none", 0,
                       IF total_chunks > 0 THEN <<"count", "get">>
                       ELSE <<"count">>,
                       st,
                       [ total_documents |->
                            IF total_chunks > 0 THEN Cardinality(unique_docs)
                            ELSE 0,
                         total_chunks |-> total_chunks,
                         total_queries |-> rag_service.total_queries ])

\* GET /stats. The dependency get_rag_service is resolved before the handler
\* is entered: an exception of it is outside the handler's try block and
\* FastAPI answers with status 500.
get_stats(fail) ==
    LET dep == get_rag_service(fail # "construct")
        r == stats_try(dep.val, store, fail)
    IN /\ op = "none"
       /\ op' = "stats"
       /\ req' = [fail |-> fail]
       /\ IF dep.exc # "none"
          THEN /\ status' = 500
               /\ calls' = <<>>
               /\ body' = [detail |-> dep.exc]
          ELSE /\ status' = 200
               /\ calls' = r.calls
               /\ body' = IF r.exc = "none" THEN r.val ELSE StatsZero
       /\ UNCHANGED <<store, asked, agentVars>>

----------------------------------------------------------------------------
(* Inputs. *)

FileId(c) == [i \in 1..FileIdLen |-> c]
FileIds == {FileId("a"), FileId("b")}

Filenames ==
    { <<"n", ".", "t", "x", "t">>,
      <<"s", ".", "P", "D", "F">>,
      <<"d", ".", "d", "o", "c", "x">>,
      <<"v", ".", "e", "x", "e">>,
      <<"R">> }

\* extracted texts, each the sequence of its paragraphs
Texts == { <<>>, <<" ">>, <<"alpha">>, <<"alpha", "beta">> }

Files ==
    [ filename : Filenames,
      size : {0, SmallSize, max_size, max_size + 1},
      text : Texts,
      readable : BOOLEAN ]

\* the documents the collection may hold from earlier runs
DocA == PathStem(save_file(FileId("a"), <<"n", ".", "t", "x", "t">>))
DocB == PathStem(save_file(FileId("b"), <<"d", ".", "d", "o", "c", "x">>))
DocC == PathStem(save_file(FileId("c"), <<"s", ".", "P", "D", "F">>))

Persisted(document_id, filename, i, text) ==
    [ chunk_id |-> ChunkId(document_id, i),
      document_id |-> document_id,
      filename |-> filename,
      text |-> text,
      embedding |-> embed_text(text) ]

PersistedSeq ==
    << Persisted(DocA, <<"n", ".", "t", "x", "t">>, 0, "alpha"),
       Persisted(DocB, <<"d", ".", "d", "o", "c", "x">>, 0, "gamma"),
       Persisted(DocA, <<"n", ".", "t", "x", "t">>, 1, "beta"),
       Persisted(DocB, <<"d", ".", "d", "o", "c", "x">>, 1, "alpha") >>

PersistedChunks == Range(PersistedSeq)

\* the collection is kept by an external ChromaDB server (chroma_host,
\* chroma_port, chroma_collection) and outlives the process: its content at
\* start-up is an input, at most MaxStored records with distinct identifiers
InitialStores ==
    { s \in UNION {[1..n -> PersistedChunks] : n \in 0..MaxStored} :
        \A i, j \in 1..Len(s) : i # j => s[i].chunk_id # s[j].chunk_id }

Questions == {"what is alpha?", "alpha or beta?"}

DocumentIdFilters ==
    { [given |-> FALSE, ids |-> <<>>],
      [given |-> TRUE, ids |-> <<DocA>>],
      [given |-> TRUE, ids |-> <<DocB>>],
      [given |-> TRUE, ids |-> <<DocA, DocB>>],
      [given |-> TRUE, ids |-> <<DocC>>] }

\* valid QueryRequest objects
QueryRequests ==
    [ question : Questions,
      num_contexts : NumContextsMin..NumContextsMax,
      document_ids : DocumentIdFilters ]

----------------------------------------------------------------------------
(* The HTTP service. *)

Init ==
    /\ store \in InitialStores
    /\ op = "none"
    /\ req = <<>>
    /\ status = 0
    /\ calls = <<>>
    /\ body = <<>>
    /\ asked = 0
    /\ pc = "idle"
    /\ content = <<>>
    /\ idx = 0
    /\ final_answer = <<>>
    /\ sources = <<>>
    /\ tool_results = <<>>
    /\ trace = <<>>
    /\ raised = "none"

Upload == \E file \in Files, file_id \in FileIds, up \in BOOLEAN :
             upload_document(file, file_id, up)

Query == \E request \in QueryRequests, up \in BOOLEAN, llm \in BOOLEAN :
            query(request, up, llm)

Preview == \E file \in Files, file_id \in FileIds :
               preview_document(file, file_id)

\* no failure, or the place at which the store fails
StatsFailures == {"none", "construct", "count", "get"}

Stats == \E fail \in StatsFailures : get_stats(fail)

\* the response is sent and the request is over
Respond ==
    /\ op # "none"
    /\ op' = "none"
    /\ req' = <<>>
    /\ status' = 0
    /\ calls' = <<>>
    /\ body' = <<>>
    /\ UNCHANGED <<store, asked, agentVars>>

Next == Upload \/ Query \/ Preview \/ Stats \/ Respond

Spec == Init /\ [][Next]_vars

----------------------------------------------------------------------------
(* services/agent_service.py: StudyBuddyAgent *)

NoFilter == [given |-> FALSE, ids |-> <<>>]

\* dict.get(key, default)
Get(d, key, default) == IF key \in DOMAIN d THEN d[key] ELSE default

\* StudyBuddyAgent._search_documents, which the class does not define: one
\* retrieval-augmented answer (specification 4.6, Execute)
search_documents(query_text, num_results, st) ==
    LET r == rag_query(query_text, num_results, NoFilter, st, TRUE, TRUE)
    IN [tool |-> "search_documents", answer |-> r.answer,
        sources |-> r.sources]

RECURSIVE MultiSources(_, _)
MultiSources(queries, st) ==
    IF queries = <<>> THEN <<>>
    ELSE rag_query(Head(queries), Settings.default_num_contexts, NoFilter,
                   st, TRUE, TRUE).sources
         \o MultiSources(Tail(queries), st)

\* StudyBuddyAgent._multi_search, not defined by the class: one retrieval per
\* query, the citations in the order of the queries
multi_search(queries, st) ==
    [tool |-> "multi_search", answer |-> "",
     sources |-> MultiSources(queries, st)]

\* StudyBuddyAgent._generate_practice_questions, not defined by the class: a
\* generation-only call
generate_practice_questions(topic, num_questions) ==
    [tool |-> "generate_practice_questions", answer |-> "practice questions",
     sources |-> <<>>]

\* StudyBuddyAgent._synthesize_answer, not defined by the class: the second
\* language-model call
synthesize_answer(original_query, results) == "synthesized answer"

\* a tool_use block whose input lacks the key the branch subscripts
MissingArgument(block) ==
    \/ block.name = "search_documents" /\ "query" \notin DOMAIN block.input
    \/ block.name = "multi_search" /\ "queries" \notin DOMAIN block.input
    \/ block.name = "generate_practice_questions"
          /\ "topic" \notin DOMAIN block.input

\* the result of the tool a well-formed tool_use block names
ToolResult(block, st) ==
    IF block.name = "search_documents"
    THEN search_documents(block.input["query"],
                          Get(block.input, "num_results", 4), st)
    ELSE IF block.name = "multi_search"
    THEN multi_search(block.input["queries"], st)
    ELSE generate_practice_questions(block.input["topic"],
                                     Get(block.input, "num_questions", 5))

\* process_query: the plan call of the language model returns `plan`, and
\* _execute_tools starts with its locals empty
process_query(plan) ==
    /\ pc = "idle"
    /\ content' = plan
    /\ trace' = <<"plan">>
    /\ idx' = 1
    /\ final_answer' = ""
    /\ sources' = <<>>
    /\ tool_results' = <<>>
    /\ raised' = "none"
    /\ pc' = "execute"
    /\ UNCHANGED apiVars

\* _execute_tools: a text block of the for loop
execute_text ==
    /\ pc = "execute" /\ idx <= Len(content)
    /\ content[idx].type = "text"
    /\ final_answer' = final_answer \o content[idx].text
    /\ idx' = idx + 1
    /\ UNCHANGED <<pc, content, sources, tool_results, trace, raised, apiVars>>

\* sources.extend(result[sources]) of the search_documents branch: the
\* subscript is the local list sources, and a list is no dictionary key
ExtendSearch(srcs, result) == Raise("TypeError")

\* an accumulation that puts the newest citations first
ExtendMulti_Prepend(srcs, result) == Ok(result.sources \o srcs)

\* sources.extend(result["sources"]) of the multi_search branch
ExtendMulti(srcs, result) == Ok(srcs \o result.sources)

\* _execute_tools: a tool_use block of the for loop
execute_tool ==
    /\ pc = "execute" /\ idx <= Len(content)
    /\ content[idx].type = "tool_use"
    /\ LET block == content[idx]
           result == ToolResult(block, store)
           extended ==
               IF block.name = "search_documents"
               THEN ExtendSearch(sources, result)
               ELSE IF block.name = "multi_search"
               THEN ExtendMulti(sources, result)
               ELSE Ok(sources)
       IN IF MissingArgument(block)
          THEN /\ raised' = "KeyError"
               /\ pc' = "done"
               /\ UNCHANGED <<idx, sources, tool_results, trace>>
          ELSE /\ trace' = Append(trace, block.name)
               /\ tool_results' = Append(tool_results, result)
               /\ IF extended.exc # "none"
                  THEN /\ raised' = extended.exc
                       /\ pc' = "done"
                       /\ UNCHANGED <<idx, sources>>
                  ELSE /\ sources' = extended.val
                       /\ idx' = idx + 1
                       /\ UNCHANGED <<pc, raised>>
    /\ UNCHANGED <<content, final_answer, apiVars>>

\* _execute_tools after the loop: "if tool_results:" and the return
execute_finish ==
    /\ pc = "execute" /\ idx > Len(content)
    /\ IF tool_results # <<>>
       THEN /\ final_answer' = synthesize_answer("question", tool_results)
            /\ trace' = Append(trace, "synthesize")
       ELSE UNCHANGED <<final_answer, trace>>
    /\ pc' = "done"
    /\ UNCHANGED <<content, idx, sources, tool_results, raised, apiVars>>

\* the caller has the result (or the exception) of process_query
agent_return ==
    /\ pc = "done"
    /\ pc' = "idle"
    /\ content' = <<>>
    /\ idx' = 0
    /\ final_answer' = <<>>
    /\ sources' = <<>>
    /\ tool_results' = <<>>
    /\ trace' = <<>>
    /\ raised' = "none"
    /\ UNCHANGED apiVars

\* the value process_query returns
AgentResult ==
    [answer |-> final_answer, sources |-> sources,
     tool_calls |-> Len(tool_results)]

\* the content blocks a plan response is made of
TextBlocks ==
    { [type |-> "text", text |-> t] : t \in {"I will search. ", "Done."} }

ToolInputs(name) ==
    IF name = "search_documents"
    THEN { <<>>, [query |-> "what is alpha?"],
           [query |-> "alpha or beta?", num_results |-> 1] }
    ELSE IF name = "multi_search"
    THEN { <<>>, [queries |-> <<"what is alpha?", "alpha or beta?">>],
           [queries |-> <<"alpha or beta?">>] }
    ELSE { <<>>, [topic |-> "alpha"] }

ToolNames == {"search_documents", "multi_search", "generate_practice_questions"}

ToolBlocks ==
    UNION { { [type |-> "tool_use", name |-> n, input |-> i] :
                i \in ToolInputs(n) } : n \in ToolNames }

Plans == UNION { [1..n -> TextBlocks \cup ToolBlocks] : n \in 0..MaxBlocks }

\* the collections the agent's retrievals run against
AgentStores ==
    { <<>>, SubSeq(PersistedSeq, 1, Min(MaxStored, Len(PersistedSeq))) }

InitAgent ==
    /\ store \in AgentStores
    /\ op = "none"
    /\ req = <<>>
    /\ status = 0
    /\ calls = <<>>
    /\ body = <<>>
    /\ asked = 0
    /\ pc = "idle"
    /\ content = <<>>
    /\ idx = 0
    /\ final_answer = <<>>
    /\ sources = <<>>
    /\ tool_results = <<>>
    /\ trace = <<>>
    /\ raised = "none"

Plan == \E plan \in Plans : process_query(plan)

NextAgent ==
    Plan \/ execute_text \/ execute_tool \/ execute_finish \/ agent_return

SpecAgent == InitAgent /\ [][NextAgent]_vars

\* the loop of _execute_tools stands before a tool_use block
ToolPending ==
    pc = "execute" /\ idx <= Len(content) /\ content[idx].type = "tool_use"

\* _execute_tools is one coroutine that awaits nothing but its own tools:
\* once started, each step of the loop and the return are taken. A tool_use
\* block is enabled exactly when ToolPending holds, and the loop leaves it
\* behind with the last block, so the fairness of execute_tool is written
\* with that state predicate.
FairSpecAgent ==
    /\ SpecAgent
    /\ WF_vars(execute_text)
    /\ []<>(~ToolPending)
    /\ WF_vars(execute_finish)
    /\ WF_vars(agent_return)

----------------------------------------------------------------------------
(* The services called on their own, as their tests and the __main__ block of
   document_services.py call them. op names the call, req holds its
   arguments and body the value it returned or the exception it raised. *)

MaxChunks == 2
MaxTexts == 3

\* tests/test_models.py: "a" * 501  # Exceeds max_length=500
TestedMaxLength == 500

DocumentIds == {DocA, DocB}

Metadatas ==
    [ filename : {<<"n", ".", "t", "x", "t">>},
      file_type : {Txt},
      file_size_bytes : {0, SmallSize} ]

\* texts given to create_chunks, each the sequence of its paragraphs
ChunkTexts ==
    Texts \cup { <<" ", " ">>, <<"alpha", " ", "beta">>,
                 <<"beta", "alpha", "gamma">> }

CreateChunks ==
    \E text \in ChunkTexts, document_id \in DocumentIds,
       metadata \in Metadatas :
        /\ op = "none"
        /\ op' = "create_chunks"
        /\ req' = [text |-> text, document_id |-> document_id,
                   metadata |-> metadata]
        /\ body' = create_chunks(text, document_id, metadata)
        /\ status' = 0
        /\ calls' = <<>>
        /\ UNCHANGED <<store, asked, agentVars>>

\* a DocumentChunk object as its class accepts it: the index and the offsets
\* are strings
SampleChunk(i, text, start, embedding) ==
    [ chunk_id |-> ChunkId(DocA, i),
      document_id |-> DocA,
      text |-> text,
      chunk_index |-> Digits(i),
      start_char |-> Digits(start),
      end_char |-> Digits(start + Len(text)),
      embedding |-> embedding,
      metadata |-> [filename |-> <<"n", ".", "t", "x", "t">>,
                    file_type |-> Txt, file_size_bytes |-> SmallSize] ]

\* chunks without an embedding, and one that carries an embedding which is
\* not that of its text
SampleChunks ==
    { SampleChunk(0, "alpha", 0, <<>>),
      SampleChunk(1, "beta", 5, <<>>),
      SampleChunk(2, "gamma", 9, <<>>),
      SampleChunk(1, "beta", 5, <<3, 4>>) }

ChunkLists == UNION { [1..n -> SampleChunks] : n \in 0..MaxChunks }

EmbedChunks ==
    \E chunks \in ChunkLists :
        /\ op = "none"
        /\ op' = "embed_chunks"
        /\ req' = [chunks |-> chunks]
        /\ body' = embed_chunks(chunks)
        /\ status' = 0
        /\ calls' = <<>>
        /\ UNCHANGED <<store, asked, agentVars>>

SampleTexts == {"alpha", "beta", "gamma", ""}

TextLists == UNION { [1..n -> SampleTexts] : n \in 0..MaxTexts }

EmbedTexts ==
    \E texts \in TextLists :
        /\ op = "none"
        /\ op' = "embed_texts"
        /\ req' = [texts |-> texts]
        /\ body' = embed_texts(texts)
        /\ status' = 0
        /\ calls' = <<>>
        /\ UNCHANGED <<store, asked, agentVars>>

\* the two calls of tests/test_embeddings_services.py, test of symmetry
CalculateSimilarity ==
    \E text1 \in SampleTexts, text2 \in SampleTexts :
        /\ op = "none"
        /\ op' = "calculate_similarity"
        /\ req' = [text1 |-> text1, text2 |-> text2]
        /\ body' = [sim1 |-> calculate_similarity(text1, text2),
                    sim2 |-> calculate_similarity(text2, text1)]
        /\ status' = 0
        /\ calls' = <<>>
        /\ UNCHANGED <<store, asked, agentVars>>

\* question strings: the empty one, whitespace alone, and texts with and
\* without surrounding whitespace around the two length limits
RawQuestions ==
    [ lead : {0, 1},
      core : {0, 1, QuestionMaxLength - 1, QuestionMaxLength,
              QuestionMaxLength + 1, TestedMaxLength, TestedMaxLength + 1},
      trail : {0, 2} ]

BuildQueryRequest ==
    \E question \in RawQuestions :
        /\ op = "none"
        /\ op' = "QueryRequest"
        /\ req' = [question |-> question]
        /\ body' = QueryRequest_question(question)
        /\ status' = 0
        /\ calls' = <<>>
        /\ UNCHANGED <<store, asked, agentVars>>

\* the values a request body may carry as num_contexts, or none
RawNumContexts ==
    {[given |-> FALSE, value |-> 0]}
        \cup {[given |-> TRUE, value |-> v] :
                 v \in {NumContextsMin - 2, NumContextsMin - 1, NumContextsMin,
                        NumContextsDefault, NumContextsMax - 1,
                        NumContextsMax, NumContextsMax + 1}}

\* POST /query up to the call of rag_service.query: FastAPI builds the
\* QueryRequest from the body (a body that fails validation never reaches
\* the handler), and the handler passes the fields of the request
ask_call(question, num_contexts, document_ids) ==
    LET n == QueryRequest_num_contexts(num_contexts)
    IN IF n.exc # "none" THEN n
       ELSE Ok(query_call_args([question |-> question,
                                num_contexts |-> n.val,
                                document_ids |-> document_ids]))

Ask ==
    \E question \in Questions, num_contexts \in RawNumContexts,
       document_ids \in DocumentIdFilters :
        /\ op = "none"
        /\ op' = "ask"
        /\ req' = [question |-> question, num_contexts |-> num_contexts,
                   document_ids |-> document_ids]
        /\ body' = ask_call(question, num_contexts, document_ids)
        /\ status' = 0
        /\ calls' = <<>>
        /\ UNCHANGED <<store, asked, agentVars>>

\* the texts a method may find on the pages of a PDF file
PageTexts ==
    { <<>>, <<" ">>, <<"K">>, <<"a">>, <<"b">>, <<"a", "K", "K">>,
      <<"a", " ", " ", "b">>, <<"b", "b">>, <<" ", "a", "K", " ">> }

\* what a method does on a file: it raises, or it returns the text
MethodOutcomes == {Raise("PdfError")} \cup {Ok(t) : t \in PageTexts}

ExtractPdf ==
    \E plumber \in MethodOutcomes, pypdf \in MethodOutcomes :
        /\ op = "none"
        /\ op' = "extract_pdf"
        /\ req' = [plumber |-> plumber, pypdf |-> pypdf]
        /\ body' = extract_pdf_methods(plumber, pypdf)
        /\ status' = 0
        /\ calls' = <<>>
        /\ UNCHANGED <<store, asked, agentVars>>

\* save_file called for two uploads, each with the eight hexadecimal
\* characters uuid4 gave it
SaveFiles ==
    \E id1 \in FileIds, id2 \in FileIds,
       filename1 \in Filenames, filename2 \in Filenames :
        /\ op = "none"
        /\ op' = "save_file"
        /\ req' = [first |-> [file_id |-> id1, filename |-> filename1],
                   second |-> [file_id |-> id2, filename |-> filename2]]
        /\ body' = [first |-> save_file(id1, filename1),
                    second |-> save_file(id2, filename2)]
        /\ status' = 0
        /\ calls' = <<>>
        /\ UNCHANGED <<store, asked, agentVars>>

InitService == InitAgent /\ store = <<>>

NextService ==
    \/ CreateChunks
    \/ EmbedChunks
    \/ EmbedTexts
    \/ CalculateSimilarity
    \/ BuildQueryRequest
    \/ Ask
    \/ ExtractPdf
    \/ SaveFiles
    \/ Respond

SpecService == InitService /\ [][NextService]_vars

----------------------------------------------------------------------------
(* Properties of the upload handler. *)

\* the extension upload_document computes for a file name
ExtensionOf(filename) == Lower(DropFirst(PathSuffix(filename)))

AllowedType(filename) ==
    ExtensionOf(filename) \in Range(Settings.allowed_file_type)

PipelineCalls ==
    {"save_file", "extract_text", "create_chunks", "embed_chunks",
     "store_chunks"}

\* C3: an upload whose content is larger than max_file_size_mb * 1024 * 1024
\* bytes is rejected, leaves the collection as it was and calls none of
\* save_file, extract_text, create_chunks, embed_chunks, store_chunks.
C3_OversizeRejected ==
    [][(op = "none" /\ op' = "upload" /\ req'.file.size > max_size)
         => /\ status' \in {400, 500}
            /\ store' = store
            /\ Range(calls') \cap PipelineCalls = {}]_vars

C3_Witness ==
    /\ op = "upload"
    /\ req.file.size > max_size
    /\ AllowedType(req.file.filename)
    /\ req.file.readable /\ req.file.text # <<>>
    /\ status \in {400, 500}

\* C4: an upload whose extension is not an allowed file type is rejected
\* before the content is read, the file saved or extract_text called.
C4_BadTypeRejectedFirst ==
    (op = "upload" /\ ~AllowedType(req.file.filename))
        => /\ status \in {400, 500}
           /\ Range(calls) \cap {"read", "save_file", "extract_text"} = {}

C4_Witness ==
    /\ op = "upload"
    /\ ExtensionOf(req.file.filename) = <<"e", "x", "e">>
    /\ status \in {400, 500}

\* C5: an upload with a disallowed file type, an oversized upload and an
\* upload whose extracted text is empty each end with status 400.
C5_ClientErrorStatus ==
    (op = "upload"
       /\ \/ ~AllowedType(req.file.filename)
          \/ req.file.size > max_size
          \/ req.file.text = <<>>)
        => status = 400

----------------------------------------------------------------------------
(* Properties of the query handler. *)

\* the chunks of the collection a document filter admits
Eligible(st, document_ids) ==
    {i \in 1..Len(st) :
        ~document_ids.given \/ st[i].document_id \in Range(document_ids.ids)}

\* the position in the collection of the chunk a source cites
PositionOf(st, src) == CHOOSE i \in 1..Len(st) : st[i].chunk_id = src.chunk_id

\* C6: with a non-empty document_ids list every returned source cites a chunk
\* of the collection whose document_id is in the list.
C6_SourcesWithinFilter ==
    (op = "query" /\ status = 200
       /\ req.request.document_ids.given
       /\ req.request.document_ids.ids # <<>>)
        => \A i \in 1..Len(body.sources) :
              \E j \in 1..Len(store) :
                 /\ store[j].chunk_id = body.sources[i].chunk_id
                 /\ store[j].document_id
                       \in Range(req.request.document_ids.ids)

\* a filtered query answered from document B while the collection holds a
\* chunk of document A that matches the question exactly
C6_Witness ==
    /\ op = "query" /\ status = 200
    /\ req.request.document_ids = [given |-> TRUE, ids |-> <<DocB>>]
    /\ body.sources # <<>>
    /\ \E j \in 1..Len(store) :
          /\ store[j].document_id = DocA
          /\ Dot(encode(req.request.question), store[j].embedding) = ScoreOne
          /\ \A i \in 1..Len(body.sources) :
                body.sources[i].relevance_score < ScoreOne

\* C7: when the collection is reachable and holds no eligible chunk, the
\* query ends with status 200, the "no information" answer and no sources,
\* and makes no language-model call.
C7_EmptyRetrieval ==
    (op = "query" /\ req.up
       /\ Eligible(store, req.request.document_ids) = {})
        => /\ status = 200
           /\ body.answer = NoInformation
           /\ body.sources = <<>>
           /\ "llm" \notin Range(calls)

\* a non-empty collection, a filter that matches none of it, and a language
\* model that would have failed
C7_Witness ==
    /\ op = "query" /\ req.up /\ ~req.llm
    /\ store # <<>>
    /\ req.request.document_ids.given
    /\ Eligible(store, req.request.document_ids) = {}
    /\ status = 200

\* C8: a query with num_contexts = k over m eligible chunks returns exactly
\* min(k, m) sources, by non-increasing relevance score, entries of equal
\* score in the order of the collection.
C8_TopKOrdered ==
    (op = "query" /\ status = 200)
        => LET srcs == body.sources
               m == Cardinality(Eligible(store, req.request.document_ids))
           IN /\ Len(srcs) = Min(req.request.num_contexts, m)
              /\ \A i, j \in 1..Len(srcs) :
                    i < j =>
                      /\ srcs[i].relevance_score >= srcs[j].relevance_score
                      /\ srcs[i].relevance_score = srcs[j].relevance_score
                            => PositionOf(store, srcs[i])
                                  < PositionOf(store, srcs[j])

\* fewer contexts asked than chunks eligible, and a tie among the sources
\* returned while a chunk of smaller score is stored between the two
C8_Witness ==
    /\ op = "query" /\ status = 200
    /\ Len(body.sources) = 2
    /\ Len(store) = 3
    /\ req.request.num_contexts = 2
    /\ ~req.request.document_ids.given
    /\ body.sources[1].relevance_score = body.sources[2].relevance_score
    /\ PositionOf(store, body.sources[2]) = 3
    /\ PositionOf(store, body.sources[1]) = 1

----------------------------------------------------------------------------
(* Properties of the agent. *)

ToolBlockIndexes(blocks) ==
    {i \in 1..Len(blocks) : blocks[i].type = "tool_use"}

RECURSIVE ConcatText(_)
\* the text blocks of a plan response, concatenated in order
ConcatText(blocks) ==
    IF blocks = <<>> THEN ""
    ELSE IF Head(blocks).type = "text"
    THEN Head(blocks).text \o ConcatText(Tail(blocks))
    ELSE ConcatText(Tail(blocks))

\* the positions of the trace at which event e was recorded
Occurrences(e) == {i \in 1..Len(trace) : trace[i] = e}

ToolExecutions == {i \in 1..Len(trace) : trace[i] \in ToolNames}

\* C9: a plan with a tool invocation ends with exactly one synthesis call,
\* made after every tool execution, whose output is the answer; a plan
\* without one ends with no synthesis and no retrieval, the concatenated text
\* as the answer, no sources and a tool count of 0.
C9_PlanExecuteSynthesize ==
    pc = "done" =>
        IF ToolBlockIndexes(content) # {}
        THEN /\ raised = "none"
             /\ Cardinality(Occurrences("synthesize")) = 1
             /\ trace[Len(trace)] = "synthesize"
             /\ Cardinality(ToolExecutions)
                   = Cardinality(ToolBlockIndexes(content))
             /\ AgentResult.answer = synthesize_answer("question", tool_results)
        ELSE /\ raised = "none"
             /\ trace = <<"plan">>
             /\ AgentResult.answer = ConcatText(content)
             /\ AgentResult.sources = <<>>
             /\ AgentResult.tool_calls = 0

\* C10: a tool invocation without its required argument fails alone: the
\* request is not aborted, every other invocation of the plan is executed
\* and the synthesis runs when one of them produced a result.
C10_MalformedToolIsolated ==
    (pc = "done"
       /\ \E i \in ToolBlockIndexes(content) : MissingArgument(content[i]))
        => /\ raised = "none"
           /\ Cardinality(ToolExecutions)
                 = Cardinality({i \in ToolBlockIndexes(content) :
                                   ~MissingArgument(content[i])})
           /\ tool_results # <<>> => Occurrences("synthesize") # {}

\* every tool_use block of the plan response carries the argument its branch
\* subscripts
WellFormed(blocks) ==
    \A i \in ToolBlockIndexes(blocks) : ~MissingArgument(blocks[i])

\* C11: every run of the agent, whatever mix of text blocks and invocations
\* of the three tools the plan response is, reaches a terminal state that
\* yields an answer, a citation list and a tool count (the dictionary
\* _execute_tools returns). Stated for the plan responses whose invocations
\* carry their arguments, the ones C10 does not concern.
C11_ReachesResult ==
    (pc = "execute" /\ WellFormed(content))
        ~> (pc = "done" /\ raised = "none")

RECURSIVE CitationsInOrder(_)
\* the citations of a list of tool results, result by result
CitationsInOrder(results) ==
    IF results = <<>> THEN <<>>
    ELSE Head(results).sources \o CitationsInOrder(Tail(results))

\* C12: in the result the agent returns, the tool count is the number of
\* tool_use blocks of the plan response, and the citations are those of the
\* first invocation, then those of the second, and so on.
C12_CountAndOrder ==
    (pc = "done" /\ raised = "none")
        => /\ AgentResult.tool_calls = Cardinality(ToolBlockIndexes(content))
           /\ Len(tool_results) = Cardinality(ToolBlockIndexes(content))
           /\ AgentResult.sources = CitationsInOrder(tool_results)

\* a returned run of two invocations with different, non-empty citations
C12_Witness ==
    /\ pc = "done" /\ raised = "none"
    /\ AgentResult.tool_calls >= 2
    /\ tool_results[1].sources # <<>>
    /\ tool_results[2].sources # <<>>
    /\ tool_results[1].sources # tool_results[2].sources

----------------------------------------------------------------------------
(* Properties of the document service. *)

\* C13: create_chunks returns the empty sequence for the empty text and at
\* least one chunk for every other text, one made of whitespace included.
C13_ChunksForNonEmptyText ==
    op = "create_chunks"
        => /\ body.exc = "none"
           /\ req.text = <<>> => body.val = <<>>
           /\ req.text # <<>> => Len(body.val) >= 1

\* C14: create_chunks returns a chunk sequence in which the chunk at
\* position i, counted from 0, has chunk_index i, the document_id given and
\* the chunk_id "<document_id>_chunk_<i>", so that the chunk_ids of the
\* sequence are pairwise distinct.
C14_IndexAndIdentifier ==
    op = "create_chunks"
        => /\ body.exc = "none"
           /\ \A i \in 1..Len(body.val) :
                 /\ body.val[i].chunk_index = i - 1
                 /\ body.val[i].document_id = req.document_id
                 /\ body.val[i].chunk_id
                       = req.document_id
                           \o <<"_", "c", "h", "u", "n", "k", "_">>
                           \o Digits(i - 1)
           /\ \A i, j \in 1..Len(body.val) :
                 i # j => body.val[i].chunk_id # body.val[j].chunk_id

\* C15: create_chunks returns a chunk sequence whose offsets are a running
\* cursor: the first start_char is 0, every end_char is start_char plus the
\* length of the chunk's text, and every start_char is the end_char of the
\* chunk before.
C15_RunningCursor ==
    op = "create_chunks"
        => /\ body.exc = "none"
           /\ \A i \in 1..Len(body.val) :
                 /\ i = 1 => body.val[i].start_char = 0
                 /\ body.val[i].end_char
                       = body.val[i].start_char + Len(body.val[i].text)
                 /\ i > 1 => body.val[i].start_char = body.val[i - 1].end_char

----------------------------------------------------------------------------
(* Properties of the embedding service. *)

\* C16: embed_chunks returns as many chunks as it was given, in the same
\* order (none for none); each carries the embedding of its own text and is
\* otherwise the chunk it was.
C16_EmbedChunksFrame ==
    op = "embed_chunks"
        => /\ Len(body) = Len(req.chunks)
           /\ \A i \in 1..Len(req.chunks) :
                 /\ DOMAIN body[i] = DOMAIN req.chunks[i]
                 /\ body[i].embedding = embed_text(req.chunks[i].text)
                 /\ body[i].embedding # <<>>
                 /\ \A f \in DOMAIN req.chunks[i] \ {"embedding"} :
                       body[i][f] = req.chunks[i][f]

\* two chunks of different texts, the second with an embedding that its
\* text does not have
C16_Witness ==
    /\ op = "embed_chunks"
    /\ Len(req.chunks) = 2
    /\ embed_text(req.chunks[1].text) # embed_text(req.chunks[2].text)
    /\ req.chunks[2].embedding # <<>>
    /\ req.chunks[2].embedding # embed_text(req.chunks[2].text)
    /\ body[2].embedding = embed_text(req.chunks[2].text)

C18_SimilaritySymmetric ==
    op = "calculate_similarity"
        => LET emb1 == embed_text(req.text1)
               emb2 == embed_text(req.text2)
               products == [k \in 1..Len(emb1) |-> emb1[k] * emb2[k]]
           IN /\ body.sim1 = body.sim2
              /\ body.sim1 = SumTo(products, Len(emb1))

\* two texts whose embeddings differ and are not orthogonal
C18_Witness ==
    /\ op = "calculate_similarity"
    /\ embed_text(req.text1) # embed_text(req.text2)
    /\ body.sim1 > 0 /\ body.sim1 < ScoreOne

----------------------------------------------------------------------------
(* Properties of the request model. *)

\* the question is empty or made of whitespace alone
Blank(v) == v.core = 0

IsInfix(sub, s) ==
    \E i \in 0..(Len(s) - Len(sub)) : SubSeq(s, i + 1, i + Len(sub)) = sub

\* C19: building a QueryRequest stores the question without its leading and
\* trailing whitespace, or, for the empty question and for one of whitespace
\* alone, fails validation with a message that has "Question cannot be
\* empty" in it. Stated for the questions within the length limit.
C19_StrippedOrEmptyMessage ==
    (op = "QueryRequest" /\ StrLen(req.question) <= QuestionMaxLength)
        => IF Blank(req.question)
           THEN /\ body.exc = "ValidationError"
                /\ IsInfix(<<"Question", "cannot", "be", "empty">>, body.val)
           ELSE /\ body.exc = "none"
                /\ body.val = strip(req.question)

\* C20: a question that is not blank is accepted when it has at most 500
\* characters and rejected with a validation error when it has more.
C20_MaxLength500 ==
    (op = "QueryRequest" /\ ~Blank(req.question))
        => /\ StrLen(req.question) <= TestedMaxLength => body.exc = "none"
           /\ StrLen(req.question) > TestedMaxLength
                 => body.exc = "ValidationError"

\* C21: a request body whose num_contexts is below 1 or above 10 is rejected
\* with a validation error; otherwise the number of contexts passed to the
\* answerer is the one of the body, 4 when the body has none, and lies
\* between 1 and 10.
C21_NumContextsBounded ==
    op = "ask"
        => LET n == req.num_contexts
           IN IF n.given /\ (n.value < 1 \/ n.value > 10)
              THEN body.exc = "ValidationError"
              ELSE /\ body.exc = "none"
                   /\ body.val.num_contexts >= 1
                   /\ body.val.num_contexts <= 10
                   /\ body.val.num_contexts
                         = (IF n.given THEN n.value ELSE 4)

\* a body asking for 11 contexts is rejected
C21_Witness ==
    /\ op = "ask"
    /\ req.num_contexts.given /\ req.num_contexts.value = 11
    /\ body.exc = "ValidationError"

----------------------------------------------------------------------------
(* Properties of the statistics and preview handlers. *)

StoredDocuments == {store[i].document_id : i \in 1..Len(store)}

\* C23: with the store reachable GET /stats reports total_chunks = the number
\* of stored chunks and total_documents = the number of distinct document_id
\* values among them; so total_documents <= total_chunks, and one is 0
\* exactly when the other is.
C23_StatsCounts ==
    (op = "stats" /\ req.fail = "none")
        => /\ status = 200
           /\ body.total_chunks = Len(store)
           /\ body.total_documents = Cardinality(StoredDocuments)
           /\ body.total_documents <= body.total_chunks
           /\ body.total_documents = 0 <=> body.total_chunks = 0

\* three stored chunks of two documents
C23_Witness ==
    /\ op = "stats" /\ req.fail = "none"
    /\ Len(store) = 3
    /\ body.total_chunks = 3
    /\ body.total_documents = 2

\* C25: a preview request, whether it succeeds or fails, calls none of
\* create_chunks, embed_chunks and store_chunks and leaves the collection as
\* it was.
C25_PreviewExtractsOnly ==
    [][(op = "none" /\ op' = "preview")
         => /\ store' = store
            /\ Range(calls')
                  \cap {"create_chunks", "embed_chunks", "store_chunks"} = {}]_vars

\* the preview of a readable text file with text, over a collection that
\* holds chunks
C25_Witness ==
    /\ op = "preview"
    /\ req.file.readable /\ req.file.text = <<"alpha", "beta">>
    /\ ExtensionOf(req.file.filename) = Txt
    /\ store # <<>>
    /\ status \in {200, 500}

----------------------------------------------------------------------------
(* Properties of the PDF extraction. *)

\* the method returned text that is not empty
Succeeded(outcome) == outcome.exc = "none" /\ outcome.val # <<>>

\* C26: PDF extraction returns the cleaned text of the method that succeeded
\* with non-empty text and whose cleaned text is longest, pdfplumber on a
\* tie; a method that raises does not keep the other from being used; and
\* extraction raises exactly when no method returned non-empty text.
C26_LongestCleanedText ==
    op = "extract_pdf"
        => LET ok1 == Succeeded(req.plumber)
               ok2 == Succeeded(req.pypdf)
               c1 == clean_text(req.plumber.val)
               c2 == clean_text(req.pypdf.val)
           IN /\ body.exc # "none" <=> (~ok1 /\ ~ok2)
              /\ (ok1 /\ ~ok2) => body.val = c1
              /\ (ok2 /\ ~ok1) => body.val = c2
              /\ (ok1 /\ ok2 /\ Len(c1) >= Len(c2)) => body.val = c1
              /\ (ok1 /\ ok2 /\ Len(c1) < Len(c2)) => body.val = c2

\* both methods found text, pdfplumber the longer one, and the text of pypdf
\* is the longer one once cleaned
C26_Witness ==
    /\ op = "extract_pdf"
    /\ Succeeded(req.plumber) /\ Succeeded(req.pypdf)
    /\ Len(req.plumber.val) > Len(req.pypdf.val)
    /\ Len(clean_text(req.plumber.val)) < Len(clean_text(req.pypdf.val))
    /\ body.val = clean_text(req.pypdf.val)

----------------------------------------------------------------------------
(* Properties of the document identifiers. *)

\* C30: two uploads, two uploads of one file name included, get different
\* document identifiers (the stems of the paths save_file returns), so no
\* chunk identifier of one is a chunk identifier of the other.
C30_DistinctDocumentIds ==
    op = "save_file"
        => /\ PathStem(body.first) # PathStem(body.second)
           /\ \A i, j \in 0..1 :
                 ChunkId(PathStem(body.first), i)
                    # ChunkId(PathStem(body.second), j)

====
